---- MODULE Spec2Model ----
(***************************************************************************)
(* Model of the sentiment video cutter's two request handlers:             *)
(*   src/app/api/analyze/route.ts   multipart upload entry point           *)
(*   src/unnamed/part_000           JSON webhook entry point               *)
(*                                                                         *)
(* A string is a sequence of tokens.  A token stands for a run of          *)
(* characters of one lexical class and carries its length in characters.   *)
(* All times are integers in milliseconds (the code's seconds * 1000), so  *)
(* that ms / 1000 and length / 10 are exact.                               *)
(***************************************************************************)
EXTENDS Integers, Sequences, FiniteSets, TLC

VARIABLES request, segments, response

vars == <<request, segments, response>>

----------------------------------------------------------------------------
(* Bounds of the explored inputs *)

\* a transcript is the concatenation of at most MaxChunks fragments
MaxChunks == 3

----------------------------------------------------------------------------
(* JavaScript values *)

Undefined == [t |-> "undefined"]
NaN == [t |-> "NaN"]
Null == [t |-> "null"]
Num(v) == [t |-> "num", v |-> v]
Str(s) == [t |-> "str", s |-> s]
File(s) == [t |-> "file", s |-> s]

\* !x for a FormData entry or a JSON field
Falsy(x) ==
    \/ x.t \in {"undefined", "null", "NaN"}
    \/ x.t = "str" /\ x.s = <<>>
    \/ x.t = "num" /\ x.v = 0

Max(a, b) == IF a >= b THEN a ELSE b
Min(a, b) == IF a <= b THEN a ELSE b
Abs(a) == IF a < 0 THEN -a ELSE a

RECURSIVE GCD(_, _)
GCD(a, b) == IF b = 0 THEN a ELSE GCD(b, a % b)

\* the real number a / b (b > 0) as a fraction in lowest terms
Div(a, b) ==
    LET g == GCD(Abs(a), b)
    IN  [num |-> a \div g, den |-> b \div g]

\* the real number f * k
Times(f, k) == Div(f.num * k, f.den)

----------------------------------------------------------------------------
(* Strings as token sequences *)

\* a run of decimal digits, e.g. the cue index "1"
Digits == [c |-> "digits", n |-> 1, v |-> 0, a |-> <<>>, b |-> <<>>]
\* "\n"
NL == [c |-> "nl", n |-> 1, v |-> 0, a |-> <<>>, b |-> <<>>]
\* " "
SP == [c |-> "sp", n |-> 1, v |-> 0, a |-> <<>>, b |-> <<>>]
\* one of . ! ?
Dot == [c |-> "term", n |-> 1, v |-> 0, a |-> <<>>, b |-> <<>>]
\* a word of n letters with lexicon valence v
Word(n, v) == [c |-> "word", n |-> n, v |-> v, a |-> <<>>, b |-> <<>>]
\* "HH:MM:SS,mmm --> HH:MM:SS,mmm" with the digit fields of both time codes
Timing(a, b) == [c |-> "timing", n |-> 29, v |-> 0, a |-> a, b |-> b]
\* "[HH:MM:SS]" with its digit fields
Stamp(a) == [c |-> "stamp", n |-> 10, v |-> 0, a |-> a, b |-> <<>>]
\* an opaque video identifier
Url == [c |-> "url", n |-> 9, v |-> 0, a |-> <<>>, b |-> <<>>]

RECURSIVE StrLen(_)
StrLen(s) == IF s = <<>> THEN 0 ELSE Head(s).n + StrLen(Tail(s))

IsWs(t) == t.c \in {"sp", "nl"}

RECURSIVE TrimLeft(_)
TrimLeft(s) == IF s = <<>> \/ ~IsWs(Head(s)) THEN s ELSE TrimLeft(Tail(s))

RECURSIVE TrimRight(_)
TrimRight(s) ==
    IF s = <<>> \/ ~IsWs(s[Len(s)]) THEN s ELSE TrimRight(SubSeq(s, 1, Len(s) - 1))

\* String.prototype.trim
trim(s) == TrimRight(TrimLeft(s))

\* .replace(/\n/g, ' ')
replaceNewlines(s) == [i \in 1..Len(s) |-> IF s[i].c = "nl" THEN SP ELSE s[i]]

\* the least element of a non-empty set of integers
Least(S) == CHOOSE x \in S : \A y \in S : x <= y

----------------------------------------------------------------------------
(* Transcript Segmenter: subtitle blocks *)

\* fixed length of a bracketed-timestamp segment, ms ("start + 5")
StampDuration == 5000
\* bounds of a sentence's synthetic duration, ms ("Math.max(3, Math.min(10, ..")
MinDuration == 3000
MaxDuration == 10000
\* text.length / 10 seconds is text.length * 100 ms
MsPerChar == 100

\* h * 3600 + m * 60 + s + ms / 1000, in ms
srtSeconds(f) == (f[1] * 3600 + f[2] * 60 + f[3]) * 1000 + f[4]

\* hours * 3600 + minutes * 60 + seconds, in ms
stampSeconds(f) == (f[1] * 3600 + f[2] * 60 + f[3]) * 1000

\* (\d+) can end at the last character of this token
EndsWithDigit(t) == t.c \in {"digits", "timing"}

\* (\d+)\n(\d{2}):..,(\d{3}) --> (\d{2}):..,(\d{3})\n matches with (\d+) ending in
\* token i
HeaderAt(c, i) ==
    /\ i + 3 <= Len(c)
    /\ EndsWithDigit(c[i])
    /\ c[i + 1].c = "nl"
    /\ c[i + 2].c = "timing"
    /\ c[i + 3].c = "nl"

\* the lookahead (?=\n\n|\n*$) holds before token j (j = Len(c) + 1: at the end)
Lookahead(c, j) ==
    \/ j + 1 <= Len(c) /\ c[j].c = "nl" /\ c[j + 1].c = "nl"
    \/ \A k \in j..Len(c) : c[k].c = "nl"

\* where the lazy ([\s\S]*?) starting before token j stops
TextEnd(c, j) == Least({k \in j..(Len(c) + 1) : Lookahead(c, k)})

\* the while loop over srtPattern.exec(content), from lastIndex (before token from)
RECURSIVE srtExec(_, _)
srtExec(c, from) ==
    LET H == {i \in from..Len(c) : HeaderAt(c, i)}
    IN  IF H = {} THEN <<>>
        ELSE LET i == Least(H)
                 j == TextEnd(c, i + 4)
                 seg == [start |-> srtSeconds(c[i + 2].a),
                         end |-> srtSeconds(c[i + 2].b),
                         text |-> replaceNewlines(trim(SubSeq(c, i + 4, j - 1))),
                         score |-> 0]
             IN  <<seg>> \o srtExec(c, j)

srtSegments(content) == srtExec(content, 1)

----------------------------------------------------------------------------
(* Transcript Segmenter: bracketed timestamps (upload entry point only) *)

\* content.split('\n')
RECURSIVE split(_)
split(c) ==
    LET N == {i \in 1..Len(c) : c[i].c = "nl"}
    IN  IF N = {} THEN <<c>>
        ELSE <<SubSeq(c, 1, Least(N) - 1)>> \o split(SubSeq(c, Least(N) + 1, Len(c)))

\* .filter(line => line.trim())
nonBlankLines(c) == SelectSeq(split(c), LAMBDA line : trim(line) # <<>>)

\* the for loop over lines: a line holding a [HH:MM:SS] gives one segment
RECURSIVE stampLoop(_)
stampLoop(lines) ==
    IF lines = <<>> THEN <<>>
    ELSE LET line == Head(lines)
             S == {i \in 1..Len(line) : line[i].c = "stamp"}
         IN  IF S = {} THEN stampLoop(Tail(lines))
             ELSE LET k == Least(S)
                      start == stampSeconds(line[k].a)
                  IN  <<[start |-> start,
                         end |-> start + StampDuration,
                         text |-> trim(SubSeq(line, k + 1, Len(line))),
                         score |-> 0]>> \o stampLoop(Tail(lines))

stampSegments(content) == stampLoop(nonBlankLines(content))

----------------------------------------------------------------------------
(* Transcript Segmenter: plain-text sentences *)

\* content.match(/[^.!?]+[.!?]+/g), scanning from before token from
RECURSIVE matchSentences(_, _)
matchSentences(c, from) ==
    LET P == {i \in from..Len(c) : c[i].c # "term"}
    IN  IF P = {} THEN <<>>
        ELSE LET p == Least(P)
                 Q == {i \in p..Len(c) : c[i].c = "term"}
             IN  IF Q = {} THEN <<>>
                 ELSE LET q == Least(Q)
                          R == {i \in q..Len(c) : c[i].c # "term"}
                          r == IF R = {} THEN Len(c) ELSE Least(R) - 1
                      IN  <<SubSeq(c, p, r)>> \o matchSentences(c, r + 1)

\* content.match(..) || [content]
sentences(content) ==
    LET m == matchSentences(content, 1)
    IN  IF m = <<>> THEN <<content>> ELSE m

\* faulty variant of duration: the clamp's min and max exchanged
durationSwapped(text) == Min(MinDuration, Max(MaxDuration, StrLen(text) * MsPerChar))

\* Math.max(3, Math.min(10, text.length / 10))
duration(text) == Max(MinDuration, Min(MaxDuration, StrLen(text) * MsPerChar))

\* sentences.forEach(..) with the running currentTime
RECURSIVE layout(_, _)
layout(sents, currentTime) ==
    IF sents = <<>> THEN <<>>
    ELSE LET text == trim(Head(sents))
         IN  <<[start |-> currentTime,
                end |-> currentTime + duration(text),
                text |-> text,
                score |-> 0]>> \o layout(Tail(sents), currentTime + duration(text))

sentenceSegments(content) == layout(sentences(content), 0)

----------------------------------------------------------------------------
(* parseTranscript of each entry point *)

\* faulty variant of parseTranscript: the sentence fallback tests the subtitle result only
parseTranscriptUnguarded(content) ==
    LET s1 == srtSegments(content)
        s2 == IF Len(s1) = 0 THEN s1 \o stampSegments(content) ELSE s1
        s3 == IF Len(s1) = 0 THEN s2 \o sentenceSegments(content) ELSE s2
    IN  s3

\* route.ts: subtitle blocks, else bracketed lines, else sentences
parseTranscript(content) ==
    LET s1 == srtSegments(content)
        s2 == IF Len(s1) = 0 THEN s1 \o stampSegments(content) ELSE s1
        s3 == IF Len(s2) = 0 THEN s2 \o sentenceSegments(content) ELSE s2
    IN  s3

\* part_000: subtitle blocks, else sentences
parseTranscriptWebhook(content) ==
    LET s1 == srtSegments(content)
        s2 == IF Len(s1) = 0 THEN s1 \o sentenceSegments(content) ELSE s1
    IN  s2

----------------------------------------------------------------------------
(* Sentiment Scorer and Segment Filter *)

\* sentiment.analyze(text).score of the `sentiment` package (imported, not part
\* of the repository): a deterministic function of the text, here the sum of
\* the lexicon valences of its words
RECURSIVE sentimentAnalyze(_)
sentimentAnalyze(text) ==
    IF text = <<>> THEN 0 ELSE Head(text).v + sentimentAnalyze(Tail(text))

\* score >= threshold on JavaScript numbers: false when threshold is NaN
Geq(score, threshold) == threshold.t = "num" /\ score >= threshold.v

\* segments.map(segment => ({...segment, score: result.score}))
analyzedSegments(segs) ==
    [i \in 1..Len(segs) |-> [segs[i] EXCEPT !.score = sentimentAnalyze(segs[i].text)]]

\* faulty variant of analyzeSentiment: the boundary score is dropped
analyzeSentimentStrict(segs, threshold) ==
    SelectSeq(analyzedSegments(segs),
              LAMBDA segment : threshold.t = "num" /\ segment.score > threshold.v)

\* the value analyzeSentiment returns
analyzeSentiment(segs, threshold) ==
    SelectSeq(analyzedSegments(segs), LAMBDA segment : Geq(segment.score, threshold))

\* faulty variant of segmentsAfterAnalyze: the scores are written into the argument
segmentsMutatedByAnalyze(segs) == analyzedSegments(segs)

\* the caller's array after analyzeSentiment returned: map and filter build new
\* arrays and the spread builds new objects, the argument is left as it was
segmentsAfterAnalyze(segs) == segs

----------------------------------------------------------------------------
(* Statistics Aggregator *)

\* segments.reduce((sum, seg) => sum + seg.score, 0)
RECURSIVE totalScore(_)
totalScore(segs) == IF segs = <<>> THEN 0 ELSE Head(segs).score + totalScore(Tail(segs))

\* totalScore / segments.length
averageSentiment(segs) == Div(totalScore(segs), Len(segs))

\* faulty variant of percentageKept: the ratio is left unscaled
percentageKeptUnscaled(matching, segs) == Div(Len(matching), Len(segs))

\* (matchingSegments.length / segments.length) * 100
percentageKept(matching, segs) == Times(Div(Len(matching), Len(segs)), 100)

----------------------------------------------------------------------------
(* Edit Command Synthesizer: template literals as token sequences *)

\* literal text of a template
Lit(s) == [c |-> "lit", s |-> s]
\* `${x}` of a time x: the decimal text of x / 1000 seconds
Secs(x) == [c |-> "seconds", x |-> x]
\* `${i}` of an index or count i
Idx(i) == [c |-> "int", x |-> i]

\* Array.prototype.join
RECURSIVE join(_, _)
join(strs, sep) ==
    IF strs = <<>> THEN <<>>
    ELSE IF Len(strs) = 1 THEN strs[1]
    ELSE strs[1] \o sep \o join(Tail(strs), sep)

\* the template of one kept segment, idx from 0
trimPair(seg, idx) ==
    <<Lit("[0:v]"), Lit("trim=start="), Secs(seg.start), Lit(":end="), Secs(seg.end),
      Lit(",setpts=PTS-STARTPTS"), Lit("[v"), Idx(idx), Lit("]"),
      Lit("; "),
      Lit("[0:a]"), Lit("atrim=start="), Secs(seg.start), Lit(":end="), Secs(seg.end),
      Lit(",asetpts=PTS-STARTPTS"), Lit("[a"), Idx(idx), Lit("]")>>

filterComplex(matching) ==
    join([k \in 1..Len(matching) |-> trimPair(matching[k], k - 1)], <<Lit("; ")>>)

concatPair(idx) == <<Lit("[v"), Idx(idx), Lit("]"), Lit("[a"), Idx(idx), Lit("]")>>

\* faulty variant of concatInputs: the labels are numbered from 1
concatInputsOneBased(matching) ==
    join([k \in 1..Len(matching) |-> concatPair(k)], <<>>)

concatInputs(matching) ==
    join([k \in 1..Len(matching) |-> concatPair(k - 1)], <<>>)

\* faulty variant of ffmpegCommand: the command is assembled for an empty kept list too
ffmpegCommandAlways(matching, videoUrl) ==
    IF Len(matching) >= 0
    THEN Str(<<Lit("ffmpeg -i \"")>> \o videoUrl.s \o <<Lit("\" -filter_complex \"")>>
             \o filterComplex(matching) \o <<Lit("; ")>> \o concatInputs(matching)
             \o <<Lit("concat=n="), Idx(Len(matching)), Lit(":v=1:a=1[outv][outa]"),
                  Lit("\" -map \"[outv]\" -map \"[outa]\" output.mp4")>>)
    ELSE Null

ffmpegCommand(matching, videoUrl) ==
    IF Len(matching) > 0
    THEN Str(<<Lit("ffmpeg -i \"")>> \o videoUrl.s \o <<Lit("\" -filter_complex \"")>>
             \o filterComplex(matching) \o <<Lit("; ")>> \o concatInputs(matching)
             \o <<Lit("concat=n="), Idx(Len(matching)), Lit(":v=1:a=1[outv][outa]"),
                  Lit("\" -map \"[outv]\" -map \"[outa]\" output.mp4")>>)
    ELSE Null

\* matchingSegments.map(seg => ({start, end, duration: seg.end - seg.start}))
cutPoints(matching) ==
    [k \in 1..Len(matching) |->
        [start |-> matching[k].start, end |-> matching[k].end,
         duration |-> matching[k].end - matching[k].start]]

----------------------------------------------------------------------------
(* The handlers *)

NoResponse == [status |-> 0]
ErrorResponse(status, msg) == [status |-> status, error |-> msg]

\* parseFloat of a form field: NaN when the field is absent
parseFloat(x) == IF x.t = "numstr" THEN Num(x.v) ELSE NaN

\* route.ts POST: the local segments and the response
uploadPOST(form) ==
    LET transcriptFile == form.transcript
        videoUrl == form.videoUrl
        threshold == parseFloat(form.threshold)
    IN  IF transcriptFile.t = "undefined" \/ Falsy(videoUrl)
        THEN [segments |-> <<>>, response |-> ErrorResponse(400, "Missing required fields")]
        ELSE
        LET parsed == parseTranscript(transcriptFile.s)
        IN  IF Len(parsed) = 0
            THEN [segments |-> parsed,
                  response |-> ErrorResponse(400,
                    "Could not parse transcript. Please use SRT format or plain text with timestamps.")]
            ELSE
            LET matchingSegments == analyzeSentiment(parsed, threshold)
                segs == segmentsAfterAnalyze(parsed)
                stats == [total |-> Len(segs),
                          matching |-> Len(matchingSegments),
                          averageSentiment |-> averageSentiment(segs)]
            IN  [segments |-> segs,
                 response |->
                    [status |-> 200,
                     success |-> TRUE,
                     videoUrl |-> videoUrl,
                     threshold |-> threshold,
                     totalSegments |-> Len(segs),
                     matchingSegments |-> Len(matchingSegments),
                     averageSentiment |-> averageSentiment(segs),
                     segments |-> matchingSegments,
                     ffmpegCommand |-> ffmpegCommand(matchingSegments, videoUrl),
                     n8nData |-> [segments |-> matchingSegments,
                                  videoUrl |-> videoUrl,
                                  threshold |-> threshold,
                                  statistics |-> stats]]]

\* part_000 POST: the local segments and the response
webhookPOST(body) ==
    LET videoUrl == body.videoUrl
        threshold == IF body.threshold.t = "undefined" THEN Num(0) ELSE body.threshold
        content == IF Falsy(body.transcriptContent) THEN body.transcript
                   ELSE body.transcriptContent
    IN  IF Falsy(videoUrl)
        THEN [segments |-> <<>>, response |-> ErrorResponse(400, "videoUrl is required")]
        ELSE IF Falsy(content)
        THEN [segments |-> <<>>,
              response |-> ErrorResponse(400, "transcript or transcriptContent is required")]
        ELSE
        LET parsed == parseTranscriptWebhook(content.s)
        IN  IF Len(parsed) = 0
            THEN [segments |-> parsed,
                  response |-> ErrorResponse(400, "Could not parse transcript")]
            ELSE
            LET matchingSegments == analyzeSentiment(parsed, threshold)
                segs == segmentsAfterAnalyze(parsed)
            IN  [segments |-> segs,
                 response |->
                    [status |-> 200,
                     success |-> TRUE,
                     videoUrl |-> videoUrl,
                     threshold |-> threshold,
                     totalSegments |-> Len(segs),
                     matchingSegments |-> Len(matchingSegments),
                     averageSentiment |-> averageSentiment(segs),
                     segments |-> matchingSegments,
                     ffmpegCommand |-> ffmpegCommand(matchingSegments, videoUrl),
                     cutPoints |-> cutPoints(matchingSegments),
                     statistics |->
                        [total |-> Len(segs),
                         matching |-> Len(matchingSegments),
                         averageSentiment |-> averageSentiment(segs),
                         percentageKept |-> percentageKept(matchingSegments, segs)]]]

----------------------------------------------------------------------------
(* Requests explored *)

Great == Word(5, 3)
Terrible == Word(8, -3)
\* 45 characters of neutral words
Filler == Word(45, 0)
Timing1 == Timing(<<0, 0, 1, 0>>, <<0, 0, 3, 0>>)
Timing2 == Timing(<<0, 1, 3, 500>>, <<1, 0, 6, 250>>)

Fragments ==
    { <<Digits, NL, Timing1, NL, Great, NL, NL>>,
      <<Digits, NL, Timing2, NL>>,
      <<Great>>, <<Terrible, Dot>>, <<Filler>>,
      <<Dot>>, <<NL>>, <<SP>>,
      <<Stamp(<<0, 1, 7>>)>> }

RECURSIVE Compose(_)
Compose(k) ==
    IF k = 0 THEN {<<>>}
    ELSE LET P == Compose(k - 1) IN P \cup {p \o f : p \in P, f \in Fragments}

Contents == Compose(MaxChunks)

Thresholds == {-3, 0, 3}

VideoUrl == Str(<<Url>>)

UploadRequests ==
    [entry : {"upload"},
     transcript : {File(c) : c \in Contents},
     videoUrl : {VideoUrl},
     threshold : {Undefined} \cup {[t |-> "numstr", v |-> v] : v \in Thresholds}]
    \cup
    [entry : {"upload"},
     transcript : {Undefined, File(<<Great>>)},
     videoUrl : {Undefined, Str(<<>>), VideoUrl},
     threshold : {Undefined, [t |-> "numstr", v |-> 0]}]

WebhookRequests ==
    [entry : {"webhook"},
     transcriptContent : {Str(c) : c \in Contents},
     transcript : {Undefined},
     videoUrl : {VideoUrl},
     threshold : {Undefined} \cup {Num(v) : v \in Thresholds}]
    \cup
    [entry : {"webhook"},
     transcriptContent : {Undefined, Str(<<>>), Str(<<Great>>)},
     transcript : {Undefined, Str(<<>>), Str(<<Terrible, Dot>>)},
     videoUrl : {Undefined, VideoUrl},
     threshold : {Undefined, Num(0)}]

Init ==
    /\ request \in UploadRequests \cup WebhookRequests
    /\ segments = <<>>
    /\ response = NoResponse

UploadPOST ==
    /\ request.entry = "upload"
    /\ response = NoResponse
    /\ LET r == uploadPOST(request)
       IN  /\ segments' = r.segments
           /\ response' = r.response
    /\ UNCHANGED request

WebhookPOST ==
    /\ request.entry = "webhook"
    /\ response = NoResponse
    /\ LET r == webhookPOST(request)
       IN  /\ segments' = r.segments
           /\ response' = r.response
    /\ UNCHANGED request

Next == UploadPOST \/ WebhookPOST

Spec == Init /\ [][Next]_vars

----------------------------------------------------------------------------
(* Vocabulary of the properties *)

Success == response.status = 200
IsUpload == request.entry = "upload"

\* the transcript text the handler hands to its parser
Content ==
    IF IsUpload THEN request.transcript.s
    ELSE IF Falsy(request.transcriptContent) THEN request.transcript.s
    ELSE request.transcriptContent.s

\* the score the Scorer gives the i-th parsed segment
ScoreOf(i) == sentimentAnalyze(segments[i].text)

RECURSIVE SumOver(_, _)
SumOver(f, n) == IF n = 0 THEN 0 ELSE f[n] + SumOver(f, n - 1)

\* the kept list is exactly the parsed segments scoring at least t, scored, each
\* once and in the original order
KeptIsFilterAt(t) ==
    LET K == {i \in 1..Len(segments) : ScoreOf(i) >= t}
        m == response.segments
    IN  /\ Len(m) = Cardinality(K)
        /\ \A i \in K :
              m[Cardinality({j \in K : j <= i})] = [segments[i] EXCEPT !.score = ScoreOf(i)]

\* C1: on success the returned averageSentiment is the sum of the Scorer's scores
\* of all parsed segments divided by the number of parsed segments
C1_AverageIsMeanOfScores ==
    Success =>
        LET total == SumOver([i \in 1..Len(segments) |-> ScoreOf(i)], Len(segments))
        IN  /\ response.averageSentiment.num * Len(segments)
                 = total * response.averageSentiment.den
            /\ response.averageSentiment.den > 0

\* C2: for a numeric threshold t the kept list is exactly the segments with
\* score >= t, each once, in the original order (score = t is kept)
C2_FilterKeepsScoresAtLeastThreshold ==
    (Success /\ response.threshold.t = "num") => KeptIsFilterAt(response.threshold.v)

C2_Witness ==
    /\ Success
    /\ response.threshold.t = "num"
    /\ \E i, j \in 1..Len(segments) :
          /\ ScoreOf(i) = response.threshold.v
          /\ ScoreOf(j) < response.threshold.v
          /\ i < j
    /\ Len(response.segments) >= 1

\* C3: when the request carries no threshold, the kept list is the filter at 0,
\* at either entry point
C3_AbsentThresholdFiltersAtZero ==
    (Success /\ request.threshold = Undefined) => KeptIsFilterAt(0)

\* C4: a request whose transcript is the empty string ends in the
\* "Could not parse transcript" failure and returns no result with segments
C4_EmptyTranscriptIsUnparsable ==
    LET given == IF IsUpload THEN request.transcript ELSE request.transcriptContent
    IN  ( /\ response # NoResponse
          /\ ~Falsy(request.videoUrl)
          /\ given.t \in {"file", "str"}
          /\ given.s = <<>>
          /\ ~IsUpload => request.transcript = Undefined )
        => /\ response.status = 400
           /\ response.error \in
                 {"Could not parse transcript",
                  "Could not parse transcript. Please use SRT format or plain text with timestamps."}

\* C5: ffmpegCommand is null exactly when the kept list is empty, and a
\* non-empty string otherwise
C5_CommandNullIffNothingKept ==
    Success =>
        /\ (response.ffmpegCommand = Null) <=> (Len(response.segments) = 0)
        /\ Len(response.segments) > 0 =>
              /\ response.ffmpegCommand.t = "str"
              /\ response.ffmpegCommand.s # <<>>
        /\ Len(response.segments) = 0 => response.ffmpegCommand.t # "str"

C5_Witness ==
    /\ Success
    /\ response.threshold.t = "num"
    /\ Len(segments) >= 2
    /\ Len(response.segments) = 0
    /\ response.ffmpegCommand = Null

\* the filter graph of a command: the tokens of the -filter_complex argument
FilterGraph(cmd) ==
    LET p == Least({i \in 1..Len(cmd) : cmd[i] = Lit("\" -filter_complex \"")})
    IN  SubSeq(cmd, p + 1, Len(cmd) - 1)

\* the stages of a filter graph, which "; " separates
RECURSIVE Stages(_)
Stages(g) ==
    LET N == {i \in 1..Len(g) : g[i] = Lit("; ")}
    IN  IF N = {} THEN <<g>>
        ELSE <<SubSeq(g, 1, Least(N) - 1)>> \o Stages(SubSeq(g, Least(N) + 1, Len(g)))

VideoTrim(seg, i) ==
    <<Lit("[0:v]"), Lit("trim=start="), Secs(seg.start), Lit(":end="), Secs(seg.end),
      Lit(",setpts=PTS-STARTPTS"), Lit("[v"), Idx(i), Lit("]")>>

AudioTrim(seg, i) ==
    <<Lit("[0:a]"), Lit("atrim=start="), Secs(seg.start), Lit(":end="), Secs(seg.end),
      Lit(",asetpts=PTS-STARTPTS"), Lit("[a"), Idx(i), Lit("]")>>

\* the label a trim stage defines: its last three tokens
OutLabel(stage) == SubSeq(stage, Len(stage) - 2, Len(stage))

\* C6: for n >= 1 kept segments the filter graph is, in order, a video and an
\* audio trim per kept segment i with that segment's start and end, labelled
\* v{i} and a{i}, then the concat stage over [v0][a0]..[v{n-1}][a{n-1}] with
\* n = the kept count; every label concat consumes is defined exactly once
C6_FilterGraphMatchesKeptSegments ==
    (Success /\ Len(response.segments) >= 1) =>
        LET kept == response.segments
            n == Len(kept)
            st == Stages(FilterGraph(response.ffmpegCommand.s))
            concat == st[2 * n + 1]
        IN  /\ Len(st) = 2 * n + 1
            /\ \A i \in 0..(n - 1) :
                  /\ st[2 * i + 1] = VideoTrim(kept[i + 1], i)
                  /\ st[2 * i + 2] = AudioTrim(kept[i + 1], i)
            /\ Len(concat) = 6 * n + 3
            /\ \A i \in 0..(n - 1) :
                  /\ SubSeq(concat, 6 * i + 1, 6 * i + 3) = <<Lit("[v"), Idx(i), Lit("]")>>
                  /\ SubSeq(concat, 6 * i + 4, 6 * i + 6) = <<Lit("[a"), Idx(i), Lit("]")>>
            /\ SubSeq(concat, 6 * n + 1, 6 * n + 3)
                  = <<Lit("concat=n="), Idx(n), Lit(":v=1:a=1[outv][outa]")>>
            /\ \A k \in 1..(2 * n) :
                  Cardinality({d \in 1..(2 * n) :
                      OutLabel(st[d]) = SubSeq(concat, 3 * k - 2, 3 * k)}) = 1

C6_Witness ==
    /\ Success
    /\ Len(response.segments) >= 2
    /\ Len(response.segments) < Len(segments)
    /\ response.ffmpegCommand.t = "str"

\* the statistics block the claim describes, for the kept and total counts
StatisticsBlockOk(stats) ==
    /\ DOMAIN stats = {"total", "matching", "averageSentiment", "percentageKept"}
    /\ stats.total = Len(segments)
    /\ stats.matching = Len(response.segments)
    /\ stats.percentageKept.den > 0
    /\ stats.percentageKept.num * Len(segments)
          = 100 * Len(response.segments) * stats.percentageKept.den
    /\ stats.percentageKept.num >= 0
    /\ stats.percentageKept.num <= 100 * stats.percentageKept.den

C8_SegmentsComeFromOneStrategy ==
    Success =>
        LET hasBlock == \E i \in 1..Len(Content) : HeaderAt(Content, i)
            stamps == IF IsUpload THEN stampSegments(Content) ELSE <<>>
        IN  /\ hasBlock => /\ segments = srtSegments(Content)
                           /\ Len(segments) >= 1
            /\ (~hasBlock /\ stamps # <<>>) => segments = stamps
            /\ (~hasBlock /\ stamps = <<>>) => segments = sentenceSegments(Content)

C8_Witness ==
    /\ Success
    /\ IsUpload
    /\ \E i \in 1..Len(Content) : HeaderAt(Content, i)
    /\ stampSegments(Content) # <<>>
    /\ segments = srtSegments(Content)
    /\ Len(segments) = 2

\* a segment without its score
Unscored(seg) == [start |-> seg.start, end |-> seg.end, text |-> seg.text]

\* a is b with some elements left out
RECURSIVE IsSubSeq(_, _)
IsSubSeq(a, b) ==
    IF a = <<>> THEN TRUE
    ELSE IF b = <<>> THEN FALSE
    ELSE IF Head(a) = Head(b) THEN IsSubSeq(Tail(a), Tail(b))
    ELSE IsSubSeq(a, Tail(b))

\* C9: after analyzeSentiment the parsed segments are as the parser left them
\* (same length and order, start, end, text and score unchanged), and the
\* returned segments are parsed segments, in order, differing only in score
C9_AnalyzeLeavesParsedSegmentsUnchanged ==
    Success =>
        /\ segments = IF IsUpload THEN parseTranscript(Content)
                      ELSE parseTranscriptWebhook(Content)
        /\ \A i \in 1..Len(segments) : segments[i].score = 0
        /\ IsSubSeq([k \in 1..Len(response.segments) |-> Unscored(response.segments[k])],
                    [i \in 1..Len(segments) |-> Unscored(segments[i])])

C9_Witness ==
    /\ Success
    /\ Len(segments) >= 2
    /\ \E k \in 1..Len(response.segments) : response.segments[k].score # 0
    /\ Len(response.segments) < Len(segments)

\* the sentence heuristic produced the segments
SentenceHeuristicUsed ==
    /\ Success
    /\ \A i \in 1..Len(Content) : ~HeaderAt(Content, i)
    /\ IsUpload => stampSegments(Content) = <<>>

\* clamp(len / 10, 3, 10) seconds, in ms
Clamp(len) ==
    IF len * 100 < 3000 THEN 3000 ELSE IF len * 100 > 10000 THEN 10000 ELSE len * 100

\* C10: sentence segments abut from time 0, each lasting
\* clamp(length of its trimmed text / 10, 3, 10) seconds
C10_SentencesAbutFromZero ==
    SentenceHeuristicUsed =>
        LET n == Len(segments)
            d == [i \in 1..n |-> segments[i].end - segments[i].start]
        IN  /\ segments[1].start = 0
            /\ \A i \in 1..(n - 1) : segments[i + 1].start = segments[i].end
            /\ \A i \in 1..n :
                  /\ d[i] = Clamp(StrLen(segments[i].text))
                  /\ d[i] >= 3000
                  /\ d[i] <= 10000
            /\ segments[n].end = SumOver(d, n)

C10_Witness ==
    /\ SentenceHeuristicUsed
    /\ Len(segments) >= 2
    /\ \E i \in 1..Len(segments) :
          /\ segments[i].end - segments[i].start > 3000
          /\ segments[i].end - segments[i].start < 10000

====
